---- MODULE Spec2Model ----
(***************************************************************************)
(* Model of the yardgoat worker (src/yardgoat/worker/worker.py) together   *)
(* with the SQS backed job queue (src/yardgoat/worker/queues.py) and the   *)
(* Storage / Engine protocols it drives.                                   *)
(*                                                                         *)
(* Every Worker is a sequential process; pc[w] is the statement of         *)
(* Worker.loop / Worker.execute_next_job the worker is at.  The            *)
(* collaborators (JobQueue backend, StorageSystem, Engine) are protocols:  *)
(* each call either returns or raises, chosen nondeterministically.        *)
(***************************************************************************)
EXTENDS Naturals, Integers, Sequences, FiniteSets, TLC

\* ---------------------------------------------------------------- bounds
NumJobs == 2
\* Job objects a client creates while Job / ObjectURI are examined.
MaxObjs == 2

\* The most entries a volumes mapping of a configuration holds.
MaxEntries == 2

\* The most files and directories the directory to bundle holds.
MaxNodes == 4

\* The directories bundled, uploaded and downloaded.
MaxSources == 2

\* The most volume keys of the configuration of an executed Artifact.
MaxKeys == 2

\* The Worker instances sharing the queue.
Workers == {"w1", "w2"}
JobIds == 1..NumJobs

\* ------------------------------------------------------------ value types
None == [none |-> TRUE]

\* ObjectURI(scheme, authority, path): worker/types.py
ObjectURI(scheme, authority, path) ==
    [scheme |-> scheme, authority |-> authority, path |-> path]

\* The bundle URI 's3://bucket/k<j>' as urlparse splits it: the path keeps
\* its leading slash.
BundleURI(j) == ObjectURI("s3", "bucket", "/k" \o ToString(j))

\* Job.new(bundle_uri): the id is the ULID's string form, the job is open.
JobNew(j) ==
    [id |-> [repr |-> "str", val |-> j], bundle_uri |-> BundleURI(j),
     output_uri |-> None]

\* attr.asdict(job) / json.dumps: the message body of a job.
asdict(job) ==
    [id |-> job.id.val, bundle_uri |-> job.bundle_uri,
     output_uri |-> job.output_uri]

\* Faulty variant: the bundle URI is read from the wrong key of the body.
JobFromMessage_WrongKey(body) ==
    [id |-> [repr |-> "ulid", val |-> body.id], bundle_uri |-> body.output_uri,
     output_uri |-> None]

\* Job(id=ulid.from_str(body.id), bundle_uri=ObjectURI(**body.bundle_uri)):
\* the id becomes a ULID object and output_uri is not read.
JobFromMessage(body) ==
    [id |-> [repr |-> "ulid", val |-> body.id], bundle_uri |-> body.bundle_uri,
     output_uri |-> None]

\* ----------------------------------------------------------------- errors
NoErr == [src |-> "none", cls |-> "none"]
\* The AttributeError of evaluating job.bundle_uri on an absent job.
AttributeError == [src |-> "worker", cls |-> "Exception"]
\* KeyboardInterrupt and the like derive from BaseException only.
ErrClasses == {"Exception", "BaseException"}
\* Errors of the queue and storage backends meet no handler in the worker,
\* so one class stands for all; errors of the engine meet `except Exception`.
CollabErr(src) ==
    IF src \in {"build", "execute"}
      THEN {[src |-> src, cls |-> c] : c \in ErrClasses}
      ELSE {[src |-> src, cls |-> "Exception"]}

\* `except Exception` (worker.py line 70)
CaughtByExceptException(e) == e.cls = "Exception"

VARIABLES
    pc,          \* pc[w]: statement the worker is at
    loopState,   \* "none" | "running" | "returned" | "raised": Worker.loop call
    shutdown,    \* Worker._shutdown (threading.Event)
    msg,         \* message received from the open channel, not yet deleted
    job,         \* local `job` of execute_next_job
    scratch,     \* the TemporaryDirectory of the cycle exists
    archive,     \* bundle_info.tarfile exists: "none"|"in_scratch"|"elsewhere"
    pending,     \* exception propagating out of the current statement
    open,        \* visible message bodies of the open SQS queue
    completed,   \* message bodies of the completed SQS queue
    \* ---- history
    submitted,   \* job ids passed to submit_new_request
    gotNone,     \* get_open_request returned None in the current / last cycle
    sawShutdown, \* value of _shutdown.is_set() at line 60 of the cycle
    shutMid,     \* shutdown() set the flag in this cycle, after the dequeue
    trace,       \* collaborator calls of the current / last cycle
    raised,      \* the error raised inside the current / last cycle
    delivered,   \* times get_open_request returned job j
    built,       \* times Engine.build was called for job j
    failed,      \* jobs whose build or execute raised
    succeeded,   \* jobs whose build and execute returned
    \* ---- values of worker/types.py (Job, ObjectURI)
    heap,        \* the Job objects created so far, each with its origin
    last,        \* the last call on a Job / ObjectURI / JobQueue and its result
    \* ---- bundle/config.py
    cfgIn,       \* arguments of BundleConfig(...) or the parsed TOML of loads
    cfgOut,      \* the BundleConfig made of cfgIn, or the error raised
    \* ---- bundle/bundler.py
    tree,        \* the files and directories below the directory to bundle
    bundling,    \* where create_bundle is, or the error it raised
    todo,        \* what the loop of create_bundle and TarFile.add still visit
    tarnames,    \* the entries written to the archive
    \* ---- storage/s3.py (with create_bundle's naming of the archive)
    disk,        \* the archive files on the local disk: path and bytes
    bucket,      \* the objects of the S3 bucket: key and bytes
    puts,        \* times upload was called for the bundle of a directory
    sres,        \* the last call on the bundler / storage and its result
    \* ---- engine/docker.py
    engineIn,    \* the Artifact given to DockerEngine.execute, and the host
    engineAt,    \* where execute is: the index of the volume key at hand
    engineOut    \* volumes resolved and created so far, and the outcome

workerVars == <<pc, loopState, shutdown, msg, job, scratch, archive, pending>>
queueVars == <<open, completed>>
histVars == <<submitted, gotNone, sawShutdown, shutMid, trace, raised,
              delivered, built, failed, succeeded>>
typesVars == <<heap, last>>
configVars == <<cfgIn, cfgOut>>
bundleVars == <<tree, bundling, todo, tarnames>>
storeVars == <<disk, bucket, puts, sres>>
engineVars == <<engineIn, engineAt, engineOut>>
pureVars == <<typesVars, configVars, bundleVars, storeVars, engineVars>>
vars == <<workerVars, queueVars, histVars, pureVars>>

Inc(n) == IF n < 2 THEN n + 1 ELSE n

\* Worker.__init__ for the workers in `made`; empty queues.  A worker that is
\* never constructed stays "off".
InitWith(made) ==
    /\ pc = [w \in Workers |-> IF w \in made THEN "idle" ELSE "off"]
    /\ loopState = [w \in Workers |-> "none"]
    /\ shutdown = [w \in Workers |-> FALSE]
    /\ msg = [w \in Workers |-> None]
    /\ job = [w \in Workers |-> None]
    /\ scratch = [w \in Workers |-> FALSE]
    /\ archive = [w \in Workers |-> "none"]
    /\ pending = [w \in Workers |-> NoErr]
    /\ open = {}
    /\ completed = {}
    /\ submitted = {}
    /\ gotNone = [w \in Workers |-> FALSE]
    /\ sawShutdown = [w \in Workers |-> FALSE]
    /\ shutMid = [w \in Workers |-> FALSE]
    /\ trace = [w \in Workers |-> <<>>]
    /\ raised = [w \in Workers |-> NoErr]
    /\ delivered = [j \in JobIds |-> 0]
    /\ built = [j \in JobIds |-> 0]
    /\ failed = {}
    /\ succeeded = {}

\* No Job value, configuration or bundle directory is under examination.
TypesIdle == heap = <<>> /\ last = None
ConfigIdle == cfgIn = None /\ cfgOut = None
BundleIdle ==
    /\ tree = {}
    /\ bundling = "no"
    /\ todo = [top |-> {}, stack |-> <<>>]
    /\ tarnames = <<>>
StoreIdle ==
    /\ disk = {}
    /\ bucket = {}
    /\ puts = [i \in 1..MaxSources |-> 0]
    /\ sres = None
EngineIdle == engineIn = None /\ engineAt = 0 /\ engineOut = None

Init ==
    /\ InitWith(Workers)
    /\ TypesIdle /\ ConfigIdle /\ BundleIdle /\ StoreIdle /\ EngineIdle

\* ------------------------------------------------------------ history help
\* Statements between the dequeue and the end of the archive deletion.
MidCycle == {"download", "build", "execute", "unlink"}

Log(w, call) == trace' = [trace EXCEPT ![w] = Append(@, call)]

\* ------------------------------------------------ clients of the JobQueue
\* SQSJobQueue.submit_new_request(job): send_message(json.dumps(asdict(job)))
submit_new_request(j) ==
    open' = open \cup {asdict(j)}

\* SQSJobQueue.mark_completed(job): send_message on the completed queue.
mark_completed(j) ==
    completed' = completed \cup {asdict(j)}

\* A client creates a job with Job.new and submits it, once per job.
Submit(i) ==
    /\ i \notin submitted
    /\ submit_new_request(JobNew(i))
    /\ submitted' = submitted \cup {i}
    /\ UNCHANGED pureVars
    /\ UNCHANGED <<workerVars, completed, gotNone, sawShutdown, shutMid, trace,
                   raised, delivered, built, failed, succeeded>>

\* ------------------------------------------------------------------ Worker
\* Worker.shutdown(), from any thread at any time: Event.set().
Shutdown(w) ==
    /\ shutdown' = [shutdown EXCEPT ![w] = TRUE]
    /\ shutMid' = [shutMid EXCEPT ![w] =
                     @ \/ (~shutdown[w] /\ job[w] # None /\ pc[w] \in MidCycle)]
    /\ UNCHANGED pureVars
    /\ UNCHANGED <<pc, loopState, msg, job, scratch, archive, pending,
                   queueVars, submitted, gotNone, sawShutdown, trace, raised, delivered,
                   built, failed, succeeded>>

\* A thread calls Worker.loop().
CallLoop(w) ==
    /\ pc[w] = "idle"
    /\ pc' = [pc EXCEPT ![w] = "loop_check"]
    /\ loopState' = [loopState EXCEPT ![w] = "running"]
    /\ UNCHANGED pureVars
    /\ UNCHANGED <<shutdown, msg, job, scratch, archive, pending, queueVars,
                   histVars>>

\* worker.py line 55: while not self._shutdown.is_set()
LoopCheck(w) ==
    /\ pc[w] = "loop_check"
    /\ IF shutdown[w]
         THEN /\ pc' = [pc EXCEPT ![w] = "idle"]
              /\ loopState' = [loopState EXCEPT ![w] = "returned"]
         ELSE /\ pc' = [pc EXCEPT ![w] = "enter"]
              /\ UNCHANGED loopState
    /\ UNCHANGED pureVars
    /\ UNCHANGED <<shutdown, msg, job, scratch, archive, pending, queueVars,
                   histVars>>

\* A caller invokes Worker.execute_next_job() directly (as the tests do).
CallExecuteNextJob(w) ==
    /\ pc[w] = "idle"
    /\ pc' = [pc EXCEPT ![w] = "enter"]
    /\ loopState' = [loopState EXCEPT ![w] = "none"]
    /\ UNCHANGED pureVars
    /\ UNCHANGED <<shutdown, msg, job, scratch, archive, pending, queueVars,
                   histVars>>

\* worker.py lines 60-62: the shutdown test builds a RuntimeError and drops
\* it (there is no `raise`), then the TemporaryDirectory is entered.
Enter(w) ==
    /\ pc[w] = "enter"
    /\ sawShutdown' = [sawShutdown EXCEPT ![w] = shutdown[w]]
    /\ gotNone' = [gotNone EXCEPT ![w] = FALSE]
    /\ scratch' = [scratch EXCEPT ![w] = TRUE]
    /\ job' = [job EXCEPT ![w] = None]
    /\ pending' = [pending EXCEPT ![w] = NoErr]
    /\ raised' = [raised EXCEPT ![w] = NoErr]
    /\ trace' = [trace EXCEPT ![w] = <<>>]
    /\ pc' = [pc EXCEPT ![w] = "receive"]
    /\ UNCHANGED pureVars
    /\ UNCHANGED <<loopState, shutdown, msg, archive, queueVars, submitted,
                   shutMid, delivered, built, failed, succeeded>>

\* queues.py lines 36-40: receive_messages(MaxNumberOfMessages=1) hands out
\* one visible message, which SQS hides from other receivers from then on.
\* Faulty variant: the received message stays visible to other receivers.
Receive_NoHide(w) ==
    /\ pc[w] = "receive"
    /\ \E m \in open :
         /\ msg' = [msg EXCEPT ![w] = m]
         /\ UNCHANGED open
    /\ Log(w, "get_open_request")
    /\ pc' = [pc EXCEPT ![w] = "delete"]
    /\ UNCHANGED pureVars
    /\ UNCHANGED <<loopState, shutdown, job, scratch, archive, pending,
                   completed, submitted, gotNone, sawShutdown, shutMid, raised, delivered,
                   built, failed, succeeded>>

Receive(w) ==
    /\ pc[w] = "receive"
    /\ \E m \in open :
         /\ msg' = [msg EXCEPT ![w] = m]
         /\ open' = open \ {m}
    /\ Log(w, "get_open_request")
    /\ pc' = [pc EXCEPT ![w] = "delete"]
    /\ UNCHANGED pureVars
    /\ UNCHANGED <<loopState, shutdown, job, scratch, archive, pending,
                   completed, submitted, gotNone, sawShutdown, shutMid, raised, delivered,
                   built, failed, succeeded>>

\* queues.py lines 41-42 and worker.py line 63: no message within the
\* timeout, get_open_request returns None and `job` is None.
ReceiveEmpty(w) ==
    /\ pc[w] = "receive"
    /\ open = {}
    /\ Log(w, "get_open_request")
    /\ job' = [job EXCEPT ![w] = None]
    /\ gotNone' = [gotNone EXCEPT ![w] = TRUE]
    /\ pc' = [pc EXCEPT ![w] = "download"]
    /\ UNCHANGED pureVars
    /\ UNCHANGED <<loopState, shutdown, msg, scratch, archive, pending,
                   queueVars, submitted, sawShutdown, shutMid, raised, delivered,
                   built, failed, succeeded>>

\* The queue backend raises inside get_open_request; the error leaves the
\* `with` block of worker.py line 62.
ReceiveRaises(w, e) ==
    /\ pc[w] = "receive"
    /\ Log(w, "get_open_request")
    /\ raised' = [raised EXCEPT ![w] = e]
    /\ pending' = [pending EXCEPT ![w] = e]
    /\ pc' = [pc EXCEPT ![w] = "cleanup"]
    /\ UNCHANGED pureVars
    /\ UNCHANGED <<loopState, shutdown, msg, job, scratch, archive, queueVars,
                   submitted, gotNone, sawShutdown, shutMid, delivered, built, failed,
                   succeeded>>

\* queues.py lines 44-50: message.delete(), then the Job is rebuilt from
\* the JSON body and returned to the worker.
Delete(w) ==
    /\ pc[w] = "delete"
    /\ open' = open \ {msg[w]}
    /\ msg' = [msg EXCEPT ![w] = None]
    /\ job' = [job EXCEPT ![w] = JobFromMessage(msg[w])]
    /\ delivered' = [delivered EXCEPT ![msg[w].id] = Inc(@)]
    /\ pc' = [pc EXCEPT ![w] = "download"]
    /\ UNCHANGED pureVars
    /\ UNCHANGED <<loopState, shutdown, scratch, archive, pending, completed,
                   submitted, gotNone, sawShutdown, shutMid, trace, raised, built, failed,
                   succeeded>>

\* worker.py lines 64-66 with job = None: evaluating job.bundle_uri raises
\* AttributeError before Storage.download is called.
DownloadNoJob(w) ==
    /\ pc[w] = "download"
    /\ job[w] = None
    /\ raised' = [raised EXCEPT ![w] = AttributeError]
    /\ pending' = [pending EXCEPT ![w] = AttributeError]
    /\ pc' = [pc EXCEPT ![w] = "cleanup"]
    /\ UNCHANGED pureVars
    /\ UNCHANGED <<loopState, shutdown, msg, job, scratch, archive, queueVars,
                   submitted, gotNone, sawShutdown, shutMid, trace, delivered, built,
                   failed, succeeded>>

\* worker.py lines 64-66: Storage.download(job.bundle_uri.path, workdir)
\* returns a BundleInfo; its tarfile is inside the scratch directory
\* (storage.py lines 20-24) or wherever the backend put it (the tests' stub
\* returns a file outside it).
DownloadOk(w, loc) ==
    /\ pc[w] = "download"
    /\ job[w] # None
    /\ Log(w, "download")
    /\ archive' = [archive EXCEPT ![w] = loc]
    /\ pc' = [pc EXCEPT ![w] = "build"]
    /\ UNCHANGED pureVars
    /\ UNCHANGED <<loopState, shutdown, msg, job, scratch, pending, queueVars,
                   submitted, gotNone, sawShutdown, shutMid, raised, delivered, built,
                   failed, succeeded>>

\* Storage.download raises: bundle_info is never bound, the error leaves the
\* `with` block.  What the backend had already written lies in the
\* destination directory.
\* Faulty variant: the worker wraps the storage error in one of its own.
DownloadRaises_Translated(w, e, partial) ==
    /\ pc[w] = "download"
    /\ job[w] # None
    /\ Log(w, "download")
    /\ archive' = [archive EXCEPT ![w] = IF partial THEN "in_scratch" ELSE "none"]
    /\ raised' = [raised EXCEPT ![w] = e]
    /\ pending' = [pending EXCEPT ![w] = [src |-> "worker", cls |-> e.cls]]
    /\ pc' = [pc EXCEPT ![w] = "cleanup"]
    /\ UNCHANGED pureVars
    /\ UNCHANGED <<loopState, shutdown, msg, job, scratch, queueVars, submitted,
                   gotNone, sawShutdown, shutMid, delivered, built, failed, succeeded>>

DownloadRaises(w, e, partial) ==
    /\ pc[w] = "download"
    /\ job[w] # None
    /\ Log(w, "download")
    /\ archive' = [archive EXCEPT ![w] = IF partial THEN "in_scratch" ELSE "none"]
    /\ raised' = [raised EXCEPT ![w] = e]
    /\ pending' = [pending EXCEPT ![w] = e]
    /\ pc' = [pc EXCEPT ![w] = "cleanup"]
    /\ UNCHANGED pureVars
    /\ UNCHANGED <<loopState, shutdown, msg, job, scratch, queueVars, submitted,
                   gotNone, sawShutdown, shutMid, delivered, built, failed, succeeded>>

\* worker.py line 68: Engine.build(bundle_info) returns an Artifact.
\* Faulty variant: the cycle tests the shutdown flag after the build and
\* skips the execute when it is set.
BuildOk_ChecksShutdown(w) ==
    /\ pc[w] = "build"
    /\ Log(w, "build")
    /\ built' = [built EXCEPT ![job[w].id.val] = Inc(@)]
    /\ pc' = [pc EXCEPT ![w] = IF shutdown[w] THEN "unlink" ELSE "execute"]
    /\ UNCHANGED pureVars
    /\ UNCHANGED <<loopState, shutdown, msg, job, scratch, archive, pending,
                   queueVars, submitted, gotNone, sawShutdown, shutMid, raised, delivered,
                   failed, succeeded>>

BuildOk(w) ==
    /\ pc[w] = "build"
    /\ Log(w, "build")
    /\ built' = [built EXCEPT ![job[w].id.val] = Inc(@)]
    /\ pc' = [pc EXCEPT ![w] = "execute"]
    /\ UNCHANGED pureVars
    /\ UNCHANGED <<loopState, shutdown, msg, job, scratch, archive, pending,
                   queueVars, submitted, gotNone, sawShutdown, shutMid, raised, delivered,
                   failed, succeeded>>

\* worker.py lines 68-73: Engine.build raises.  `except Exception: pass`
\* drops an Exception; anything else keeps propagating.  Either way the
\* `finally` clause runs next.
\* Faulty variant: the handler puts the job back on the open channel.
BuildRaises_Requeue(w, e) ==
    /\ pc[w] = "build"
    /\ Log(w, "build")
    /\ built' = [built EXCEPT ![job[w].id.val] = Inc(@)]
    /\ failed' = failed \cup {job[w].id.val}
    /\ raised' = [raised EXCEPT ![w] = e]
    /\ pending' = [pending EXCEPT ![w] =
                     IF CaughtByExceptException(e) THEN NoErr ELSE e]
    /\ submit_new_request(job[w])
    /\ pc' = [pc EXCEPT ![w] = "unlink"]
    /\ UNCHANGED pureVars
    /\ UNCHANGED <<loopState, shutdown, msg, job, scratch, archive, completed,
                   submitted, gotNone, sawShutdown, shutMid, delivered, succeeded>>

\* Faulty variant: after a failed build the cycle goes on to execute.
BuildRaises_Continues(w, e) ==
    /\ pc[w] = "build"
    /\ Log(w, "build")
    /\ built' = [built EXCEPT ![job[w].id.val] = Inc(@)]
    /\ failed' = failed \cup {job[w].id.val}
    /\ raised' = [raised EXCEPT ![w] = e]
    /\ pending' = [pending EXCEPT ![w] =
                     IF CaughtByExceptException(e) THEN NoErr ELSE e]
    /\ pc' = [pc EXCEPT ![w] = "execute"]
    /\ UNCHANGED pureVars
    /\ UNCHANGED <<loopState, shutdown, msg, job, scratch, archive, queueVars,
                   submitted, gotNone, sawShutdown, shutMid, delivered, succeeded>>

BuildRaises(w, e) ==
    /\ pc[w] = "build"
    /\ Log(w, "build")
    /\ built' = [built EXCEPT ![job[w].id.val] = Inc(@)]
    /\ failed' = failed \cup {job[w].id.val}
    /\ raised' = [raised EXCEPT ![w] = e]
    /\ pending' = [pending EXCEPT ![w] =
                     IF CaughtByExceptException(e) THEN NoErr ELSE e]
    /\ pc' = [pc EXCEPT ![w] = "unlink"]
    /\ UNCHANGED pureVars
    /\ UNCHANGED <<loopState, shutdown, msg, job, scratch, archive, queueVars,
                   submitted, gotNone, sawShutdown, shutMid, delivered, succeeded>>

\* worker.py line 69: Engine.execute(artifact) returns.
ExecuteOk(w) ==
    /\ pc[w] = "execute"
    /\ Log(w, "execute")
    /\ succeeded' = succeeded \cup {job[w].id.val}
    /\ pc' = [pc EXCEPT ![w] = "unlink"]
    /\ UNCHANGED pureVars
    /\ UNCHANGED <<loopState, shutdown, msg, job, scratch, archive, pending,
                   queueVars, submitted, gotNone, sawShutdown, shutMid, raised, delivered,
                   built, failed>>

\* worker.py lines 69-73: Engine.execute raises.
ExecuteRaises(w, e) ==
    /\ pc[w] = "execute"
    /\ Log(w, "execute")
    /\ failed' = failed \cup {job[w].id.val}
    /\ raised' = [raised EXCEPT ![w] = e]
    /\ pending' = [pending EXCEPT ![w] =
                     IF CaughtByExceptException(e) THEN NoErr ELSE e]
    /\ pc' = [pc EXCEPT ![w] = "unlink"]
    /\ UNCHANGED pureVars
    /\ UNCHANGED <<loopState, shutdown, msg, job, scratch, archive, queueVars,
                   submitted, gotNone, sawShutdown, shutMid, delivered, built, succeeded>>

\* worker.py lines 72-73: finally: Path(bundle_info.tarfile).unlink()
\* Faulty variant: the finally clause leaves the archive in place.
Unlink_Forgotten(w) ==
    /\ pc[w] = "unlink"
    /\ Log(w, "unlink")
    /\ pc' = [pc EXCEPT ![w] = "cleanup"]
    /\ UNCHANGED pureVars
    /\ UNCHANGED <<loopState, shutdown, msg, job, scratch, archive, pending,
                   queueVars, submitted, gotNone, sawShutdown, shutMid, raised, delivered,
                   built, failed, succeeded>>

Unlink(w) ==
    /\ pc[w] = "unlink"
    /\ Log(w, "unlink")
    /\ archive' = [archive EXCEPT ![w] = "none"]
    /\ pc' = [pc EXCEPT ![w] = "cleanup"]
    /\ UNCHANGED pureVars
    /\ UNCHANGED <<loopState, shutdown, msg, job, scratch, pending, queueVars,
                   submitted, gotNone, sawShutdown, shutMid, raised, delivered, built,
                   failed, succeeded>>

\* worker.py line 62, leaving the `with`: TemporaryDirectory.__exit__ removes
\* the scratch directory with everything in it; then execute_next_job
\* returns, or the pending exception reaches its caller.  In loop() (line
\* 56) nothing catches it, so it ends the loop.
Cleanup(w) ==
    /\ pc[w] = "cleanup"
    /\ scratch' = [scratch EXCEPT ![w] = FALSE]
    /\ archive' = [archive EXCEPT ![w] = IF @ = "in_scratch" THEN "none" ELSE @]
    /\ IF loopState[w] = "running"
         THEN IF pending[w] = NoErr
                THEN /\ pc' = [pc EXCEPT ![w] = "loop_check"]
                     /\ UNCHANGED loopState
                ELSE /\ pc' = [pc EXCEPT ![w] = "idle"]
                     /\ loopState' = [loopState EXCEPT ![w] = "raised"]
         ELSE /\ pc' = [pc EXCEPT ![w] = "idle"]
              /\ UNCHANGED loopState
    /\ job' = [job EXCEPT ![w] = None]
    /\ sawShutdown' = [sawShutdown EXCEPT ![w] = FALSE]
    /\ shutMid' = [shutMid EXCEPT ![w] = FALSE]
    /\ UNCHANGED pureVars
    /\ UNCHANGED <<shutdown, msg, pending, queueVars, submitted, gotNone, trace,
                   raised, delivered, built, failed, succeeded>>

\* ------------------------------------------------------------------- steps
\* The statements of a worker's own thread.
WorkerStep(w) ==
    \/ LoopCheck(w)
    \/ Enter(w)
    \/ Receive(w)
    \/ ReceiveEmpty(w)
    \/ \E e \in CollabErr("queue") : ReceiveRaises(w, e)
    \/ Delete(w)
    \/ DownloadNoJob(w)
    \/ \E loc \in {"in_scratch", "elsewhere"} : DownloadOk(w, loc)
    \/ \E e \in CollabErr("storage"), partial \in BOOLEAN :
         DownloadRaises(w, e, partial)
    \/ BuildOk(w)
    \/ \E e \in CollabErr("build") : BuildRaises(w, e)
    \/ ExecuteOk(w)
    \/ \E e \in CollabErr("execute") : ExecuteRaises(w, e)
    \/ Unlink(w)
    \/ Cleanup(w)

Next ==
    \/ \E i \in JobIds : Submit(i)
    \/ \E w \in Workers : Shutdown(w)
    \/ \E w \in Workers : CallLoop(w)
    \/ \E w \in Workers : CallExecuteNextJob(w)
    \/ \E w \in Workers : WorkerStep(w)

Spec == Init /\ [][Next]_vars

\* One Worker alone on the queue; every call its thread is in terminates,
\* that is, the thread keeps taking its steps.
InitSingle ==
    /\ InitWith({"w1"})
    /\ TypesIdle /\ ConfigIdle /\ BundleIdle /\ StoreIdle /\ EngineIdle

FairSpec ==
    InitSingle /\ [][Next]_vars /\ \A w \in Workers : WF_vars(WorkerStep(w))

\* =========================================================================
\* worker/types.py: ObjectURI and Job as values.  A Python str is a sequence
\* of one-character strings, so that formatting and parsing are computed.
\* =========================================================================
Letters == {"s", "h", "b", "k"}
Digits == {"3"}
\* urllib.parse.scheme_chars
SchemeChars == Letters \cup Digits \cup {"+", "-", "."}

S3 == <<"s", "3">>
\* 's3://b/k', 'h://b/k' (a scheme other than s3), 's3:/k' and 'b/k'
StrS3BK == <<"s", "3", ":", "/", "/", "b", "/", "k">>
StrHBK == <<"h", ":", "/", "/", "b", "/", "k">>
StrS3K == <<"s", "3", ":", "/", "k">>
StrBK == <<"b", "/", "k">>

\* Arguments of type Optional[Union[str, ObjectURI]].
NoneArg == [t |-> "none"]
StrArg(str) == [t |-> "str", v |-> str]
UriArg(u) == [t |-> "uri", v |-> u]

\* Index of the first occurrence of c in str at or after `from`, 0 if none.
Find(str, c, from) ==
    IF \E i \in from..Len(str) : str[i] = c
      THEN CHOOSE i \in from..Len(str) :
             str[i] = c /\ \A k \in from..(i - 1) : str[k] # c
      ELSE 0

\* urllib.parse.urlparse(url), for a url without '?', '#', ';' and brackets:
\* a leading run of scheme characters that starts with a letter and ends at
\* the first ':' is the scheme; after it '//' opens the netloc, which runs
\* to the next '/'; the rest is the path.
urlparse(url) ==
    LET colon == Find(url, ":", 1)
        hasScheme == /\ colon > 1
                     /\ url[1] \in Letters
                     /\ \A k \in 1..(colon - 1) : url[k] \in SchemeChars
        scheme == IF hasScheme THEN SubSeq(url, 1, colon - 1) ELSE <<>>
        rest == IF hasScheme THEN SubSeq(url, colon + 1, Len(url)) ELSE url
        hasNetloc == Len(rest) >= 2 /\ rest[1] = "/" /\ rest[2] = "/"
        slash == Find(rest, "/", 3)
        netlocEnd == IF slash = 0 THEN Len(rest) ELSE slash - 1
        netloc == IF hasNetloc THEN SubSeq(rest, 3, netlocEnd) ELSE <<>>
        path == IF hasNetloc THEN SubSeq(rest, netlocEnd + 1, Len(rest))
                ELSE rest
    IN  [scheme |-> scheme, netloc |-> netloc, path |-> path]

\* ObjectURI.from_parse_result (types.py lines 34-53)
from_parse_result(pr) == ObjectURI(pr.scheme, pr.netloc, pr.path)

\* ObjectURI.to_uri_string (types.py lines 55-64): with an empty authority
\* the scheme and the path are joined with nothing between them.
to_uri_string(u) ==
    IF u.authority # <<>>
      THEN u.scheme \o <<":", "/", "/">> \o u.authority \o u.path
      ELSE u.scheme \o u.path

\* _convert_uri (types.py lines 67-73)
_convert_uri(obj) ==
    IF obj.t = "none" THEN None
    ELSE IF obj.t = "uri" THEN obj.v
    ELSE from_parse_result(urlparse(obj.v))

\* Faulty variant: the validator accepts every scheme.
_validate_uri_AnyScheme(value) == TRUE

\* _validate_uri (types.py lines 76-80): TRUE when no ValueError is raised.
_validate_uri(value) == value = None \/ value.scheme = S3

\* Job(id, bundle_uri, output_uri): the attrs __init__ runs the converters,
\* then the validators (types.py lines 114-118).
JobInit(id, bundle_uri, output_uri) ==
    LET b == _convert_uri(bundle_uri)
        o == _convert_uri(output_uri)
    IN  IF _validate_uri(b) /\ _validate_uri(o)
          THEN [err |-> "none",
                job |-> [id |-> id, bundle_uri |-> b, output_uri |-> o]]
          ELSE [err |-> "ValueError"]

\* Faulty variant: Job.new does not pass output_uri on.
Job_new_DropsOutput(j, bundle_uri, output_uri) ==
    JobInit([repr |-> "str", val |-> j], bundle_uri, NoneArg)

\* Job.new (types.py lines 120-139); j is the ULID that ulid.new() makes.
Job_new(j, bundle_uri, output_uri) ==
    JobInit([repr |-> "str", val |-> j], bundle_uri, output_uri)

\* Faulty variant: complete() without the test of self.output_uri.
complete_NoGuard(self, output_uri) ==
    JobInit(self.id, UriArg(self.bundle_uri), output_uri)

\* Job.complete (types.py lines 141-159); attr.evolve builds a new Job from
\* the fields of self with output_uri replaced.
complete(self, output_uri) ==
    IF self.output_uri # None
      THEN [err |-> "AlreadyCompletedError"]
      ELSE JobInit(self.id, UriArg(self.bundle_uri), output_uri)

\* ---- inputs
\* An id that is not the string form of a ULID (the tests use id="test").
NonUlid == 0
IdStrings == JobIds \cup {NonUlid}
UriStrings == {StrS3BK, StrHBK, StrS3K, StrBK}
UriSchemes == {S3, <<"h">>}
UriAuthorities == {<<>>, <<"b">>}
UriPaths == {<<>>, <<"/", "k">>, <<"k">>}
BundleArgs ==
    {StrArg(StrS3BK), StrArg(StrHBK), StrArg(StrBK),
     UriArg(ObjectURI(S3, <<"b">>, <<"/", "k">>))}
OutputArgs ==
    {NoneArg, StrArg(StrS3BK), StrArg(StrHBK),
     UriArg(ObjectURI(S3, <<"b">>, <<"/", "k">>)),
     UriArg(ObjectURI(<<"h">>, <<"b">>, <<"/", "k">>))}

\* ulid.from_str(s) (queues.py line 48): TRUE when s is a ULID's string.
IsUlidStr(v) == v \in JobIds

\* Everything outside the Job / ObjectURI / queue round-trip examination.
typesOthers == <<pc, loopState, shutdown, msg, job, scratch, archive, pending,
                 completed, histVars, configVars, bundleVars, storeVars,
                 engineVars>>

\* The new object, if any, joins the heap with its origin.
Allocate(r, by, given) ==
    heap' = IF r.err = "none"
              THEN Append(heap, [job |-> r.job, by |-> by, given |-> given])
              ELSE heap

\* A client calls Job.new(bundle_uri, output_uri).
CallJobNew(j, b, o) ==
    LET r == Job_new(j, b, o) IN
    /\ Len(heap) < MaxObjs
    /\ Allocate(r, "new", o.t # "none")
    /\ last' = [op |-> "new", b |-> b, o |-> o, err |-> r.err]
    /\ UNCHANGED <<open, typesOthers>>

\* A client calls Job(id=..., bundle_uri=..., output_uri=...).
CallJob(id, b, o) ==
    LET r == JobInit([repr |-> "str", val |-> id], b, o) IN
    /\ Len(heap) < MaxObjs
    /\ Allocate(r, "init", o.t # "none")
    /\ last' = [op |-> "init", b |-> b, o |-> o, err |-> r.err]
    /\ UNCHANGED <<open, typesOthers>>

\* A client calls heap[i].job.complete(u).
CallComplete(i, u) ==
    LET r == complete(heap[i].job, u) IN
    /\ i \in 1..Len(heap)
    /\ r.err = "none" => Len(heap) < MaxObjs
    /\ Allocate(r, "complete", TRUE)
    /\ last' = [op |-> "complete", recv |-> i, self |-> heap[i].job, o |-> u,
                objs |-> Len(heap), err |-> r.err]
    /\ UNCHANGED <<open, typesOthers>>

\* A client calls ObjectURI(scheme=..., authority=..., path=...): the class
\* has no validator (types.py lines 11-32).
CallObjectURI(scheme, authority, path) ==
    /\ last' = [op |-> "ObjectURI", err |-> "none",
                out |-> ObjectURI(scheme, authority, path)]
    /\ UNCHANGED <<heap, open, typesOthers>>

\* A client parses a URI string into an ObjectURI, as the converter does.
CallParse(str) ==
    /\ last' = [op |-> "parse", arg |-> str, err |-> "none",
                out |-> _convert_uri(StrArg(str))]
    /\ UNCHANGED <<heap, open, typesOthers>>

\* A client calls to_uri_string() on the ObjectURI it just made.
CallToUriString ==
    /\ last # None
    /\ last.op \in {"ObjectURI", "parse"}
    /\ last' = [op |-> "to_uri_string", self |-> last.out,
                from |-> IF last.op = "parse" THEN StrArg(last.arg) ELSE NoneArg,
                err |-> "none", out |-> to_uri_string(last.out)]
    /\ UNCHANGED <<heap, open, typesOthers>>

\* A client parses the string to_uri_string() returned.
CallParseBack ==
    /\ last # None
    /\ last.op = "to_uri_string"
    /\ last' = [op |-> "parse_back", self |-> last.self, arg |-> last.out,
                err |-> "none", out |-> _convert_uri(StrArg(last.out))]
    /\ UNCHANGED <<heap, open, typesOthers>>

\* SQSJobQueue.submit_new_request(heap[i].job) on an empty open channel.
CallSubmit(i) ==
    /\ i \in 1..Len(heap)
    /\ open = {}
    /\ submit_new_request(heap[i].job)
    /\ last' = [op |-> "submit", self |-> heap[i].job, err |-> "none"]
    /\ UNCHANGED <<heap, typesOthers>>

\* SQSJobQueue.get_open_request() (queues.py lines 35-50), called by a
\* client: None on an empty channel; otherwise the message is deleted and
\* the Job rebuilt from its body, ulid.from_str raising ValueError on an id
\* that is no ULID.
CallGetOpenRequest ==
    /\ IF open = {}
         THEN /\ last' = [op |-> "get", sent |-> None, err |-> "none",
                          out |-> None]
              /\ UNCHANGED open
         ELSE \E m \in open :
                /\ open' = open \ {m}
                /\ last' = [op |-> "get",
                            sent |-> IF last # None /\ last.op = "submit"
                                       THEN last.self ELSE None,
                            err |-> IF IsUlidStr(m.id) THEN "none"
                                    ELSE "ValueError",
                            out |-> IF IsUlidStr(m.id) THEN JobFromMessage(m)
                                    ELSE None]
    /\ UNCHANGED <<heap, typesOthers>>

TypesNext ==
    \/ \E j \in JobIds, b \in BundleArgs, o \in OutputArgs : CallJobNew(j, b, o)
    \/ \E id \in IdStrings, b \in BundleArgs, o \in OutputArgs : CallJob(id, b, o)
    \/ \E i \in 1..MaxObjs, u \in OutputArgs \ {NoneArg} : CallComplete(i, u)
    \/ \E sc \in UriSchemes, a \in UriAuthorities, p \in UriPaths :
         CallObjectURI(sc, a, p)
    \/ \E str \in UriStrings : CallParse(str)
    \/ CallToUriString
    \/ CallParseBack
    \/ \E i \in 1..MaxObjs : CallSubmit(i)
    \/ CallGetOpenRequest

\* No worker is constructed; a client works with Job, ObjectURI and the queue.
TypesInit ==
    /\ InitWith({})
    /\ TypesIdle /\ ConfigIdle /\ BundleIdle /\ StoreIdle /\ EngineIdle

TypesSpec == TypesInit /\ [][TypesNext]_vars

\* =========================================================================
\* bundle/config.py: BundleConfig, its validators and converter, and loads
\* =========================================================================

\* ---- Python values, tagged with their type
Absent == [t |-> "absent"]
PyNone == [t |-> "none"]
PyStr(str) == [t |-> "str", v |-> str]
PyInt(n) == [t |-> "int", v |-> n]
PyBool(b) == [t |-> "bool", v |-> b]
PyList(elems) == [t |-> "list", v |-> elems]
PyDict(items) == [t |-> "dict", v |-> items]
Item(key, value) == [k |-> key, v |-> value]

\* bool(value): None, "", 0, False and empty containers are falsy.
Truthy(value) ==
    CASE value.t = "none" -> FALSE
      [] value.t = "str" -> value.v # ""
      [] value.t = "int" -> value.v # 0
      [] value.t = "bool" -> value.v
      [] value.t \in {"list", "dict"} -> Len(value.v) > 0

\* str(value), the converter of BundleConfig.name.
str(value) ==
    CASE value.t = "str" -> value.v
      [] value.t = "none" -> "None"
      [] value.t = "int" -> IF value.v = 0 THEN "0" ELSE "3"
      [] value.t = "bool" -> IF value.v THEN "True" ELSE "False"

\* `key in d` and d[key] for a dict.
Has(d, key) == \E i \in 1..Len(d.v) : d.v[i].k = PyStr(key)
Get(d, key) == d.v[CHOOSE i \in 1..Len(d.v) : d.v[i].k = PyStr(key)].v

\* _is_str_or_strlist (config.py lines 11-19): the error it raises, if any.
_is_str_or_strlist(value) ==
    IF Truthy(value) /\ value.t \notin {"str", "list"}
      THEN "TypeError"
      ELSE IF /\ Truthy(value)
              /\ value.t = "list"
              /\ \E i \in 1..Len(value.v) : value.v[i].t # "str"
        THEN "TypeError"
        ELSE "none"

\* Faulty variant: the test for keys other than bind and mode is missing.
_validate_volumes_entry_NoKeyCheck(key, value) ==
    IF key.t # "str" THEN "TypeError"
    ELSE IF value.t \notin {"dict", "str"} THEN "TypeError"
    ELSE IF value.t # "dict" THEN "none"
    ELSE IF ~Has(value, "bind") THEN "MissingKeyError"
    ELSE IF Get(value, "bind").t # "str" THEN "TypeError"
    ELSE IF ~Has(value, "mode") THEN "MissingKeyError"
    ELSE IF Get(value, "mode") \notin {PyStr("rw"), PyStr("ro")}
      THEN "ValueError"
    ELSE "none"

\* The body of the loop of _validate_volumes_data (config.py lines 24-51) for
\* one entry: the first check that fails decides the error.
_validate_volumes_entry(key, value) ==
    IF key.t # "str" THEN "TypeError"
    ELSE IF value.t \notin {"dict", "str"} THEN "TypeError"
    ELSE IF value.t # "dict" THEN "none"
    ELSE IF ~Has(value, "bind") THEN "MissingKeyError"
    ELSE IF Get(value, "bind").t # "str" THEN "TypeError"
    ELSE IF ~Has(value, "mode") THEN "MissingKeyError"
    ELSE IF Get(value, "mode") \notin {PyStr("rw"), PyStr("ro")}
      THEN "ValueError"
    ELSE IF \E i \in 1..Len(value.v) :
              value.v[i].k \notin {PyStr("bind"), PyStr("mode")}
      THEN "InvalidKeyError"
    ELSE "none"

\* _validate_volumes_data (config.py lines 22-51): the entries are visited
\* in the order of the dict and the first error ends the loop.
_validate_volumes_data(value) ==
    LET bad == {i \in 1..Len(value.v) :
                  _validate_volumes_entry(value.v[i].k, value.v[i].v) # "none"}
    IN  IF bad = {}
          THEN "none"
          ELSE LET i == CHOOSE m \in bad : \A n \in bad : m <= n
               IN  _validate_volumes_entry(value.v[i].k, value.v[i].v)

\* Faulty variant: a bare string is expanded to a read-only volume.
_standardize_volumes_ReadOnly(volumes) ==
    PyDict([i \in 1..Len(volumes.v) |->
              IF volumes.v[i].v.t = "str"
                THEN Item(volumes.v[i].k,
                          PyDict(<<Item(PyStr("bind"), volumes.v[i].v),
                                   Item(PyStr("mode"), PyStr("ro"))>>))
                ELSE volumes.v[i]])

\* _standardize_volumes (config.py lines 54-60) on a dict: a copy in which
\* every bare string is replaced by {bind: string, mode: "rw"}.
_standardize_volumes(volumes) ==
    PyDict([i \in 1..Len(volumes.v) |->
              IF volumes.v[i].v.t = "str"
                THEN Item(volumes.v[i].k,
                          PyDict(<<Item(PyStr("bind"), volumes.v[i].v),
                                   Item(PyStr("mode"), PyStr("rw"))>>))
                ELSE volumes.v[i]])

\* The first error of a sequence of checks.
FirstErr(errs) ==
    IF \A i \in 1..Len(errs) : errs[i] = "none"
      THEN "none"
      ELSE errs[CHOOSE i \in 1..Len(errs) :
                  errs[i] # "none" /\ \A n \in 1..(i - 1) : errs[n] = "none"]

\* BundleConfig(name=..., cmd=..., entrypoint=..., volumes=...) (config.py
\* lines 86-97).  The generated __init__ applies the defaults and the
\* converters, then runs the validators in the order of the attributes.  On
\* a volumes value that is no dict either the converter (indexing it) or
\* instance_of(dict) raises TypeError.
BundleConfig(name, cmd, entrypoint, volumes) ==
    LET c == IF cmd = Absent THEN PyNone ELSE cmd
        e == IF entrypoint = Absent THEN PyNone ELSE entrypoint
        v == IF volumes = Absent THEN PyDict(<<>>) ELSE volumes
    IN  IF v.t # "dict"
          THEN [err |-> "TypeError", cfg |-> None]
          ELSE LET vol == _standardize_volumes(v)
                   err == FirstErr(<<_is_str_or_strlist(c),
                                     _is_str_or_strlist(e),
                                     _validate_volumes_data(vol)>>)
               IN  IF err # "none"
                     THEN [err |-> err, cfg |-> None]
                     ELSE [err |-> "none",
                           cfg |-> [name |-> str(name), cmd |-> c,
                                    entrypoint |-> e, volumes |-> vol]]

\* loads (config.py lines 118-138) on the table toml.loads returns; a key
\* the text does not have is Absent, and .get() turns it into None.
loads(toml_data) ==
    IF toml_data.name = Absent
      THEN [err |-> "MissingKeyError", cfg |-> None]
      ELSE BundleConfig(toml_data.name, toml_data.cmd, toml_data.entrypoint,
                        toml_data.volumes)

\* ---- inputs
CmdValues ==
    {Absent, PyNone, PyStr(""), PyStr("echo"), PyInt(0), PyInt(3),
     PyBool(FALSE), PyBool(TRUE), PyList(<<>>), PyList(<<PyStr("echo")>>),
     PyList(<<PyStr("echo"), PyInt(3)>>), PyDict(<<>>),
     PyDict(<<Item(PyStr("a"), PyStr("b"))>>)}
NameValues == {Absent, PyNone, PyStr("foo"), PyStr(""), PyInt(3)}
VolumeKeys == {PyStr("a"), PyStr("b"), PyInt(3)}
BindValues == {Absent, PyStr("/mnt"), PyInt(3)}
ModeValues == {Absent, PyStr("rw"), PyStr("ro"), PyStr("rx")}
ExtraValues == {Absent, PyStr("/mnt")}

\* The mapping with the keys that are present, in the order bind, mode, mount.
Mapping(bind, mode, extra) ==
    PyDict((IF bind = Absent THEN <<>> ELSE <<Item(PyStr("bind"), bind)>>)
           \o (IF mode = Absent THEN <<>> ELSE <<Item(PyStr("mode"), mode)>>)
           \o (IF extra = Absent THEN <<>> ELSE <<Item(PyStr("mount"), extra)>>))
VolumeValues ==
    {PyStr("/mnt"), PyInt(3)}
      \cup {Mapping(b, m, x) : b \in BindValues, m \in ModeValues,
                               x \in ExtraValues}
VolumeItems == {Item(key, value) : key \in VolumeKeys, value \in VolumeValues}

\* The dicts of at most MaxEntries entries; the keys of a dict are distinct.
VolumesValues ==
    {PyDict(items) : items \in
        UNION {{q \in [1..n -> VolumeItems] :
                  \A i, j \in 1..n : i # j => q[i].k # q[j].k} :
               n \in 0..MaxEntries}}

\* A call and its arguments.  Three families: cmd and entrypoint vary, the
\* volumes vary, the name varies.
Call(via, name, cmd, entrypoint, volumes) ==
    [via |-> via, name |-> name, cmd |-> cmd, entrypoint |-> entrypoint,
     volumes |-> volumes]
CtorInputs ==
    {Call("BundleConfig", PyStr("foo"), c, e, Absent) :
        c \in CmdValues, e \in CmdValues}
      \cup {Call("BundleConfig", PyStr("foo"), Absent, Absent, v) :
              v \in VolumesValues \cup {PyStr("/mnt")}}
      \cup {Call("BundleConfig", n, Absent, Absent, Absent) :
              n \in NameValues \ {Absent}}

\* A TOML text has no None, and the keys of its tables are strings.
TomlKeys(d) == \A i \in 1..Len(d.v) : d.v[i].k.t = "str"
LoadsInputs ==
    {Call("loads", PyStr("foo"), c, e, Absent) :
        c \in CmdValues \ {PyNone}, e \in CmdValues \ {PyNone}}
      \cup {Call("loads", PyStr("foo"), Absent, Absent, v) :
              v \in {d \in VolumesValues : TomlKeys(d)} \cup {PyStr("/mnt")}}
      \cup {Call("loads", n, Absent, Absent, Absent) :
              n \in NameValues \ {PyNone}}

\* ---- the calls
configOthers ==
    <<workerVars, queueVars, histVars, typesVars, bundleVars, storeVars,
      engineVars>>

\* A client calls BundleConfig(...) with the arguments of cfgIn.
CallBundleConfig ==
    /\ cfgOut = None
    /\ cfgIn.via = "BundleConfig"
    /\ cfgOut' = BundleConfig(cfgIn.name, cfgIn.cmd, cfgIn.entrypoint,
                              cfgIn.volumes)
    /\ UNCHANGED <<cfgIn, configOthers>>

\* A client calls loads(s) on a text whose table is cfgIn.
CallLoads ==
    /\ cfgOut = None
    /\ cfgIn.via = "loads"
    /\ cfgOut' = loads(cfgIn)
    /\ UNCHANGED <<cfgIn, configOthers>>

ConfigNext == CallBundleConfig \/ CallLoads

ConfigInit ==
    /\ InitWith({}) /\ TypesIdle /\ BundleIdle /\ StoreIdle /\ EngineIdle
    /\ cfgIn \in CtorInputs \cup LoadsInputs
    /\ cfgOut = None

ConfigSpec == ConfigInit /\ [][ConfigNext]_vars

\* =========================================================================
\* bundle/bundler.py: create_bundle and its tar filter
\* =========================================================================

\* The name of the configuration file (bundler.py line 15).
BUNDLE_CONFIG_FILENAME == "yardgoat.toml"

\* File names, in the order sorted() gives them.
Names == <<".git", ".github", "src">>
AllNames == Names \o <<BUNDLE_CONFIG_FILENAME>>

\* A file or directory, by its path below the directory to bundle.
Node(path, isdir) == [path |-> path, isdir |-> isdir]
Exists(path) == \E n \in tree : n.path = path
IsDir(path) == Node(path, TRUE) \in tree
NodeAt(path) == CHOOSE n \in tree : n.path = path

\* sorted(os.listdir(path)) and path.iterdir(), as paths.
listdir(path) ==
    LET present(name) == Exists(Append(path, name))
        names == SelectSeq(AllNames, present)
    IN  [i \in 1..Len(names) |-> Append(path, names[i])]
iterdir(path) == {n.path : n \in {m \in tree : Len(m.path) = Len(path) + 1}}

\* TarFile.gettarinfo: the archive name is the arcname, joined of the
\* names from the top-level entry down; pathlib splits it into its parts.
TarInfo(path) == [name |-> path, isdir |-> IsDir(path)]
parts(name) == {name[i] : i \in 1..Len(name)}

\* Faulty variant: only the first part of the name is tested.
_default_filter_FirstPart(tarinfo) ==
    IF tarinfo.name[1] = ".git" /\ tarinfo.isdir THEN None ELSE tarinfo

\* _default_filter (bundler.py lines 18-20).
_default_filter(tarinfo) ==
    IF ".git" \in parts(tarinfo.name) /\ tarinfo.isdir THEN None ELSE tarinfo

bundleOthers ==
    <<workerVars, queueVars, histVars, typesVars, configVars, storeVars,
      engineVars>>

\* Before create_bundle is called, someone fills the directory.
MakeNode(parent, name, isdir) ==
    /\ bundling = "no"
    /\ Cardinality(tree) < MaxNodes
    /\ parent = <<>> \/ IsDir(parent)
    /\ ~Exists(Append(parent, name))
    /\ tree' = tree \cup {Node(Append(parent, name), isdir)}
    /\ UNCHANGED <<bundling, todo, tarnames, bundleOthers>>

\* ... and writes a yardgoat.toml into it.
MakeConfig ==
    /\ bundling = "no"
    /\ Cardinality(tree) < MaxNodes
    /\ ~Exists(<<BUNDLE_CONFIG_FILENAME>>)
    /\ tree' = tree \cup {Node(<<BUNDLE_CONFIG_FILENAME>>, FALSE)}
    /\ UNCHANGED <<bundling, todo, tarnames, bundleOthers>>

\* create_bundle, lines 66-74: no yardgoat.toml in the directory.
ConfigNotPresent ==
    /\ bundling = "no"
    /\ ~Exists(<<BUNDLE_CONFIG_FILENAME>>)
    /\ bundling' = "BundleConfigNotPresent"
    /\ UNCHANGED <<tree, todo, tarnames, bundleOthers>>

\* create_bundle, line 70: load(f) raises on the content of the file.
LoadRaises ==
    /\ bundling = "no"
    /\ Exists(<<BUNDLE_CONFIG_FILENAME>>)
    /\ bundling' = "ConfigError"
    /\ UNCHANGED <<tree, todo, tarnames, bundleOthers>>

\* create_bundle, lines 70 and 76-78: the configuration is loaded, the tar
\* file is opened and the loop over path.iterdir() begins.
LoadOk ==
    /\ bundling = "no"
    /\ Exists(<<BUNDLE_CONFIG_FILENAME>>)
    /\ bundling' = "adding"
    /\ todo' = [top |-> iterdir(<<>>), stack |-> <<>>]
    /\ UNCHANGED <<tree, tarnames, bundleOthers>>

\* TarFile.add(name, arcname, filter=_default_filter) for one path: the
\* filter may drop it; a directory that is kept is written and then its
\* entries are added, sorted, each by a call of add of its own.
tar_add(path, rest) ==
    LET tarinfo == _default_filter(TarInfo(path)) IN
    IF tarinfo = None
      THEN /\ tarnames' = tarnames
           /\ todo' = rest
      ELSE /\ tarnames' = Append(tarnames, tarinfo)
           /\ todo' = [rest EXCEPT !.stack =
                          (IF tarinfo.isdir THEN listdir(path) ELSE <<>>) \o @]

\* create_bundle, line 79: the loop passes the next entry of the directory,
\* in the order iterdir() happens to give, to tar.add.
AddTop(path) ==
    /\ bundling = "adding"
    /\ todo.stack = <<>>
    /\ path \in todo.top
    /\ tar_add(path, [todo EXCEPT !.top = @ \ {path}])
    /\ UNCHANGED <<tree, bundling, bundleOthers>>

\* A call of add made by add itself, for an entry of a directory.
AddNested ==
    /\ bundling = "adding"
    /\ todo.stack # <<>>
    /\ tar_add(Head(todo.stack), [todo EXCEPT !.stack = Tail(@)])
    /\ UNCHANGED <<tree, bundling, bundleOthers>>

\* create_bundle, lines 81-91: the archive is closed, hashed and renamed.
Finish ==
    /\ bundling = "adding"
    /\ todo.top = {} /\ todo.stack = <<>>
    /\ bundling' = "done"
    /\ UNCHANGED <<tree, todo, tarnames, bundleOthers>>

\* The paths a new file or directory can be made at.
Parents == {<<>>} \cup {n.path : n \in tree}
NameSet == {Names[i] : i \in 1..Len(Names)}

BundleNext ==
    \/ \E parent \in Parents, name \in NameSet, isdir \in BOOLEAN :
         MakeNode(parent, name, isdir)
    \/ MakeConfig
    \/ ConfigNotPresent
    \/ LoadRaises
    \/ LoadOk
    \/ \E path \in todo.top : AddTop(path)
    \/ AddNested
    \/ Finish

BundleInit ==
    /\ InitWith({})
    /\ TypesIdle /\ ConfigIdle /\ BundleIdle /\ StoreIdle /\ EngineIdle

BundleSpec == BundleInit /\ [][BundleNext]_vars

\* =========================================================================
\* storage/s3.py: S3Storage, with the archive naming of create_bundle and
\* the download call of the Worker
\* =========================================================================

\* The directories that get bundled.
Sources == 1..MaxSources

\* The text of the yardgoat.toml of directory i, as the table toml.loads
\* returns for it.
ConfigToml(i) ==
    [via |-> "loads", name |-> PyStr("p" \o ToString(i)), cmd |-> Absent,
     entrypoint |-> Absent, volumes |-> Absent]

\* The bytes of the tar file written for directory i (bundler.py lines
\* 77-79): they hold the configuration file among the entries.
Tar(i) == [toml |-> ConfigToml(i), entries |-> i]

\* hashlib.sha256 over the bytes of the file and hexdigest() (bundler.py
\* lines 81-86).  The digest is cut to one hex digit; different archives of
\* the model have different digests.
hexdigest(bytes) ==
    LET HexDigits == <<"0", "1", "2", "3", "4", "5", "6", "7", "8", "9",
                       "a", "b", "c", "d", "e", "f">>
    IN  <<HexDigits[(bytes.entries % Len(HexDigits)) + 1]>>

\* f"{hex.hexdigest()}.goat" (bundler.py line 88)
GoatName(bytes) == hexdigest(bytes) \o <<".", "g", "o", "a", "t">>

\* Paths: a directory and, for a file, its name in it.
FilePath(dir, name) == [dir |-> dir, name |-> name]
DirPath(dir) == [dir |-> dir, name |-> <<>>]
is_dir(path) == path.name = <<>>
\* tempfile.gettempdir() and the TemporaryDirectory of a caller of download.
TempDir == "tmp"
ScratchDir == DirPath("scratch")

\* The file system: reading and (over)writing a file.
HasFile(path) == \E f \in disk : f.path = path
ReadFile(path) == (CHOOSE f \in disk : f.path = path).bytes
WriteFile(path, bytes) ==
    {f \in disk : f.path # path} \cup {[path |-> path, bytes |-> bytes]}

\* The bucket: head/get and put of an object; put replaces the object of
\* the same key.
HasKey(key) == \E o \in bucket : o.key = key
GetObject(key) == (CHOOSE o \in bucket : o.key = key).body
PutObject(key, body) ==
    {o \in bucket : o.key # key} \cup {[key |-> key, body |-> body]}

\* BundleInfo(config=..., tarfile=...) (bundler.py lines 49-50)
BundleInfo(config, tarfile) == [config |-> config, tarfile |-> tarfile]

\* BundleInfo.from_bundle_file (bundler.py lines 35-47): the configuration is
\* parsed from the yardgoat.toml entry of the archive at the path.
from_bundle_file(path, bytes) == BundleInfo(loads(bytes.toml).cfg, path)

\* Faulty variant: the archive keeps the name made of the uuid.
create_bundle_UuidName(i) ==
    [info |-> BundleInfo(loads(ConfigToml(i)).cfg,
                         FilePath(TempDir, <<"u", ".", "g", "o", "a", "t">>)),
     bytes |-> Tar(i)]

\* create_bundle on directory i (bundler.py lines 66-91): the configuration
\* is loaded, the tar file is written under a uuid name, hashed, and renamed
\* to the digest of its bytes; the BundleInfo returned and the bytes on disk.
create_bundle(i) ==
    [info |-> BundleInfo(loads(ConfigToml(i)).cfg,
                         FilePath(TempDir, GoatName(Tar(i)))),
     bytes |-> Tar(i)]

\* S3Storage.upload (s3.py lines 17-19): the key and the body of
\* client.upload_file(str(bundle.tarfile), bucket, bundle.tarfile.name).
upload(bundle) ==
    [key |-> bundle.tarfile.name, body |-> ReadFile(bundle.tarfile)]

\* S3Storage.download (s3.py lines 13-15).  client.download_file asks for
\* the object first (ClientError when there is none), writes it next to the
\* destination and renames it onto the destination, which fails when that
\* is a directory (as would opening it as a tar file on line 15).
download(identifier, destination) ==
    IF ~HasKey(identifier)
      THEN [err |-> "ClientError", out |-> None, disk |-> disk]
      ELSE IF is_dir(destination)
        THEN [err |-> "IsADirectoryError", out |-> None, disk |-> disk]
        ELSE [err |-> "none",
              out |-> from_bundle_file(destination, GetObject(identifier)),
              disk |-> WriteFile(destination, GetObject(identifier))]

\* ---- inputs
\* 's3://b/<key>': the URI of an object of bucket b.
ObjectUriString(key) == S3 \o <<":", "/", "/", "b", "/">> \o key
Identifiers == {GoatName(Tar(i)) : i \in Sources}
Destinations ==
    {ScratchDir, FilePath("scratch", <<"x">>)}
      \cup {FilePath("scratch", k) : k \in Identifiers}

\* ---- the calls
storeOthers ==
    <<workerVars, queueVars, histVars, typesVars, configVars, bundleVars,
      engineVars>>

\* A client calls create_bundle on directory i.
CallCreateBundle(i) ==
    LET r == create_bundle(i) IN
    /\ disk' = WriteFile(r.info.tarfile, r.bytes)
    /\ sres' = [op |-> "create_bundle", src |-> i, err |-> "none",
                out |-> r.info]
    /\ UNCHANGED <<bucket, puts, storeOthers>>

\* A client calls S3Storage.upload with the BundleInfo create_bundle
\* returned for directory i.
CallUpload(i) ==
    LET b == create_bundle(i).info
        r == upload(b)
    IN  /\ HasFile(b.tarfile)
        /\ bucket' = PutObject(r.key, r.body)
        /\ puts' = [puts EXCEPT ![i] = Inc(@)]
        /\ sres' = [op |-> "upload", src |-> i, bundle |-> b, err |-> "none",
                    out |-> r.key]
        /\ UNCHANGED <<disk, storeOthers>>

\* A client calls S3Storage.download(identifier, destination).
CallDownload(identifier, destination) ==
    LET r == download(identifier, destination) IN
    /\ disk' = r.disk
    /\ sres' = [op |-> "download", identifier |-> identifier,
                destination |-> destination, err |-> r.err, out |-> r.out,
                had |-> IF HasKey(identifier) THEN GetObject(identifier)
                        ELSE None]
    /\ UNCHANGED <<bucket, puts, storeOthers>>

\* The Worker runs a job whose bundle_uri is 's3://b/<k>', k being the
\* StorageID upload returned for directory i (worker.py lines 62-66):
\* Storage.download(job.bundle_uri.path, tempdir).
WorkerDownload(i) ==
    LET k == upload(create_bundle(i).info).key
        job_ == Job_new(1, StrArg(ObjectUriString(k)), NoneArg).job
        identifier == job_.bundle_uri.path
        r == download(identifier, ScratchDir)
    IN  /\ HasFile(create_bundle(i).info.tarfile)
        /\ puts[i] > 0
        /\ disk' = r.disk
        /\ sres' = [op |-> "worker", key |-> k, identifier |-> identifier,
                    destination |-> ScratchDir, err |-> r.err, out |-> r.out,
                    had |-> GetObject(k)]
        /\ UNCHANGED <<bucket, puts, storeOthers>>

StoreNext ==
    \/ \E i \in Sources : CallCreateBundle(i)
    \/ \E i \in Sources : CallUpload(i)
    \/ \E k \in Identifiers, d \in Destinations : CallDownload(k, d)
    \/ \E i \in Sources : WorkerDownload(i)

StoreInit ==
    /\ InitWith({})
    /\ TypesIdle /\ ConfigIdle /\ BundleIdle /\ StoreIdle /\ EngineIdle

StoreSpec == StoreInit /\ [][StoreNext]_vars

\* =========================================================================
\* DockerEngine.execute: resolving the declared volumes of a bundle
\* (engine/docker.py).  Volume keys are strings (sequences of characters),
\* paths are sequences of components.
\* =========================================================================

\* The components of a string split at "/", empty ones included.
RECURSIVE SplitSlash(_)
SplitSlash(s) ==
    IF \A i \in 1..Len(s) : s[i] # "/"
    THEN <<s>>
    ELSE LET i == CHOOSE j \in 1..Len(s) :
                      s[j] = "/" /\ \A h \in 1..(j - 1) : s[h] # "/"
         IN  <<SubSeq(s, 1, i - 1)>> \o SplitSlash(SubSeq(s, i + 1, Len(s)))

\* pathlib.PurePath(k) on a POSIX host: a leading "/" is the root, empty and
\* "." components are dropped, ".." components are kept.
PurePath(k) ==
    [root  |-> k # <<>> /\ k[1] = "/",
     comps |-> SelectSeq(SplitSlash(k), LAMBDA c : c # <<>> /\ c # <<".">>)]

\* fp.parts: the root, when there is one, counts as a part.
fp_parts(fp) == IF fp.root THEN <<(<<"/">>)>> \o fp.comps ELSE fp.comps

\* fp.name: the last component, empty for the root and the empty path.
fp_name(fp) == IF fp.comps = <<>> THEN <<>> ELSE fp.comps[Len(fp.comps)]

\* tempdir.joinpath(fp): an absolute fp replaces tempdir altogether.
joinpath(fp) ==
    [at |-> IF fp.root THEN "host" ELSE "tempdir", comps |-> fp.comps]

\* extract_volume_files(bundle, destination): the members of the archive that
\* the volume keys refer to are extracted under destination, a directory with
\* what is below it and with the directories above it; a key that names no
\* member of the archive extracts nothing and is no error.
extract_volume_files(bundle) ==
    {p \in bundle.archive :
        \E i \in 1..Len(bundle.volumes) :
            LET fp == PurePath(bundle.volumes[i].key)
            IN  /\ ~fp.root
                /\ fp.comps \in bundle.archive
                /\ \/ /\ Len(fp.comps) <= Len(p)
                      /\ SubSeq(p, 1, Len(fp.comps)) = fp.comps
                   \/ /\ Len(p) <= Len(fp.comps)
                      /\ SubSeq(fp.comps, 1, Len(p)) = p}

\* absolute.exists(): a path of the host exists when the host has it; a path
\* under tempdir exists when it was extracted; tempdir itself and its parent
\* directory always exist.
exists(absolute, extracted, hostPaths) ==
    IF absolute.at = "host" THEN absolute.comps \in hostPaths
    ELSE \/ absolute.comps = <<>>
         \/ absolute.comps = <<(<<".", ".">>)>>
         \/ absolute.comps \in extracted

\* volumes_absolute_paths[k] = v, with k a path or the name of a volume
DictPut(d, k, v) == {e \in d : e.k # k} \cup {[k |-> k, v |-> v]}

\* The volume keys, archives and host paths execute is tried with.
\* "a", "d/a", "/", "/e" and ".."
VolumeKeyPool ==
    {<<"a">>, <<"d", "/", "a">>, <<"/">>, <<"/", "e">>, <<".", ".">>}

RECURSIVE VolumeLists(_)
VolumeLists(n) ==
    IF n = 0 THEN {<<>>}
    ELSE LET shorter == VolumeLists(n - 1)
         IN  shorter \cup
             {Append(l, [key |-> k, spec |-> v]) :
                 l \in {s \in shorter : Len(s) = n - 1},
                 k \in VolumeKeyPool,
                 v \in {[bind |-> <<"/", "m">>, mode |-> m] :
                           m \in {"rw", "ro"}}}

Artifacts ==
    {[archive |-> a, volumes |-> l, hostPaths |-> h] :
        a \in {{}, {<<(<<"a">>)>>}, {<<(<<"d">>)>>},
                {<<(<<"d">>)>>, <<(<<"d">>), <<"a">>>>},
                {<<(<<"a">>)>>, <<(<<"d">>)>>, <<(<<"d">>), <<"a">>>>}},
        l \in {s \in VolumeLists(MaxKeys) :
                  \A i, j \in 1..Len(s) : i # j => s[i].key # s[j].key},
        h \in {{<<>>}, {<<>>, <<(<<"e">>)>>}}}

engineOthers ==
    <<workerVars, queueVars, histVars, typesVars, configVars, bundleVars,
      storeVars>>

\* execute is entered: the volume files are extracted into tempdir.
EnterExecute ==
    /\ engineIn # None /\ engineAt = 0 /\ engineOut = None
    /\ engineAt' = 1
    /\ engineOut' = [extracted |-> extract_volume_files(engineIn),
                     volumes_absolute_paths |-> {},
                     created |-> {},
                     how |-> <<>>,
                     raised |-> "none",
                     ran |-> "no"]
    /\ UNCHANGED <<engineIn, engineOthers>>

InLoop ==
    /\ engineOut # None
    /\ engineOut.raised = "none" /\ engineOut.ran = "no"
    /\ engineAt \in 1..Len(engineIn.volumes)

\* The key at hand exists as tempdir.joinpath(fp): it is bind-mounted.
BindPath ==
    /\ InLoop
    /\ LET v == engineIn.volumes[engineAt]
           fp == PurePath(v.key)
           absolute == joinpath(fp)
       IN  /\ exists(absolute, engineOut.extracted, engineIn.hostPaths)
           /\ engineOut' =
                 [engineOut EXCEPT
                     !.volumes_absolute_paths = DictPut(@, absolute, v.spec),
                     !.how = Append(@, "bind")]
    /\ engineAt' = engineAt + 1
    /\ UNCHANGED <<engineIn, engineOthers>>

\* It does not exist and has one part: a Docker volume of its name is created.
CreateVolume ==
    /\ InLoop
    /\ LET v == engineIn.volumes[engineAt]
           fp == PurePath(v.key)
           absolute == joinpath(fp)
       IN  /\ ~exists(absolute, engineOut.extracted, engineIn.hostPaths)
           /\ Len(fp_parts(fp)) = 1
           /\ engineOut' =
                 [engineOut EXCEPT
                     !.created = @ \cup {fp_name(fp)},
                     !.volumes_absolute_paths =
                         DictPut(@, [at |-> "volume", comps |-> <<fp_name(fp)>>],
                                 v.spec),
                     !.how = Append(@, "volume")]
    /\ engineAt' = engineAt + 1
    /\ UNCHANGED <<engineIn, engineOthers>>

\* Neither: MissingVolumeFile is raised and leaves execute.
RaiseMissingVolumeFile ==
    /\ InLoop
    /\ LET v == engineIn.volumes[engineAt]
           fp == PurePath(v.key)
           absolute == joinpath(fp)
       IN  /\ ~exists(absolute, engineOut.extracted, engineIn.hostPaths)
           /\ Len(fp_parts(fp)) # 1
           /\ engineOut' =
                 [engineOut EXCEPT !.raised = "MissingVolumeFile",
                                   !.how = Append(@, "missing")]
    /\ UNCHANGED <<engineIn, engineAt, engineOthers>>

\* After the loop the container is run with the mounts gathered; the run
\* returns the output or raises the backend's error.
RunContainer ==
    /\ engineOut # None
    /\ engineOut.raised = "none" /\ engineOut.ran = "no"
    /\ engineAt = Len(engineIn.volumes) + 1
    /\ \E outcome \in {"output", "ContainerError"} :
           engineOut' = [engineOut EXCEPT !.ran = outcome]
    /\ UNCHANGED <<engineIn, engineAt, engineOthers>>

EngineNext ==
    \/ EnterExecute
    \/ BindPath
    \/ CreateVolume
    \/ RaiseMissingVolumeFile
    \/ RunContainer

EngineInit ==
    /\ InitWith({})
    /\ TypesIdle /\ ConfigIdle /\ BundleIdle /\ StoreIdle
    /\ engineIn \in Artifacts /\ engineAt = 0 /\ engineOut = None

EngineSpec == EngineInit /\ [][EngineNext]_vars

\* ================================================================= claims
\* No call of loop() or execute_next_job() is in its `with` block.
OutOfCycle(w) == pc[w] \in {"idle", "loop_check", "enter"}

\* A call of execute_next_job has ended; trace, raised, gotNone describe it
\* and pending[w] is what its caller received (NoErr: a normal return).
Ended(w) == pc[w] \in {"idle", "loop_check"} /\ trace[w] # <<>>

\* C1: on every exit path of execute_next_job (success, Engine.build raises,
\* Engine.execute raises, Storage.download raises, no job) the downloaded
\* archive and the scratch directory no longer exist once the call has
\* ended, so a worker outside a cycle holds neither.
Inv_C1_CleanupOnEveryExit ==
    \A w \in Workers : OutOfCycle(w) => (~scratch[w] /\ archive[w] = "none")

\* A cycle whose build raised and a cycle whose download raised have ended.
Wit_C1_FailedCyclesEnded ==
    \E w1, w2 \in Workers :
        /\ Ended(w1) /\ raised[w1].src = "build" /\ ~scratch[w1]
        /\ Ended(w2) /\ raised[w2].src = "storage" /\ ~scratch[w2]

\* C2: when get_open_request returns None the cycle ends normally: no
\* download, build or execute is called and no error reaches the caller.
Cex_C2_EmptyQueueEndsNormally ==
    \A w \in Workers :
        (gotNone[w] /\ Ended(w)) =>
            (pending[w] = NoErr /\ trace[w] = <<"get_open_request">>)

\* C3: if shutdown() was called before execute_next_job is invoked, the
\* call starts no work: get_open_request is not called and no message
\* leaves the open channel.
Cex_C3_ShutdownFailsFast ==
    \A w \in Workers :
        sawShutdown[w] => (trace[w] = <<>> /\ msg[w] = None /\ job[w] = None)

\* C4: loop() ends only because shutdown was signaled: whenever a call of
\* loop() has ended, the shutdown flag is set.
Cex_C4_LoopEndsOnlyOnShutdown ==
    \A w \in Workers : loopState[w] \in {"returned", "raised"} => shutdown[w]

\* C5: if shutdown() is called while loop() runs and every call of
\* execute_next_job ends, loop() eventually returns, with the shutdown flag
\* set.
Cex_C5_ShutdownReturnsLoop ==
    \A w \in Workers :
        (loopState[w] = "running" /\ shutdown[w])
            ~> (loopState[w] = "returned" /\ shutdown[w])

\* The calls a cycle that dequeued a job has made when it is at statement
\* `at`, given the error raised in it so far.
ExpectedTrace(at, e) ==
    CASE at = "download" -> <<"get_open_request">>
      [] at = "build" -> <<"get_open_request", "download">>
      [] at = "execute" -> <<"get_open_request", "download", "build">>
      [] at = "unlink" ->
           IF e.src = "build"
             THEN <<"get_open_request", "download", "build">>
             ELSE <<"get_open_request", "download", "build", "execute">>
      [] OTHER ->
           IF e.src = "storage" THEN <<"get_open_request", "download">>
           ELSE IF e.src = "build"
             THEN <<"get_open_request", "download", "build", "unlink">>
             ELSE <<"get_open_request", "download", "build", "execute",
                    "unlink">>

\* C6: shutdown is non-preemptive: a cycle that has dequeued a job when
\* shutdown() is called still makes every remaining call (download,
\* build, execute, archive deletion) as it would without shutdown, and
\* ends through its cleanup with the archive deleted.
Inv_C6_ShutdownNonPreemptive ==
    \A w \in Workers :
        shutMid[w] =>
            /\ pc[w] \in MidCycle \cup {"cleanup"}
            /\ trace[w] = ExpectedTrace(pc[w], raised[w])
            /\ (pc[w] = "cleanup" /\ raised[w].src # "storage")
                  => archive[w] = "none"

\* Shutdown came while the job was being built, and the cycle went on to
\* execute and delete the archive.
Wit_C6_ShutdownDuringCycle ==
    \E w \in Workers :
        /\ shutMid[w] /\ pc[w] = "cleanup" /\ raised[w] = NoErr
        /\ trace[w] = <<"get_open_request", "download", "build", "execute",
                        "unlink">>

\* C7: at-most-once delivery with several workers on one queue: each job
\* submitted once is returned by get_open_request at most once, is off the
\* open channel when it is returned, and is never held, built or executed
\* by two workers or twice.
Inv_C7_AtMostOnceDelivery ==
    /\ \A j \in JobIds : delivered[j] <= 1 /\ built[j] <= 1
    /\ \A w \in Workers :
         job[w] # None => \A m \in open : m.id # job[w].id.val
    /\ \A w1, w2 \in Workers :
         (w1 # w2 /\ job[w1] # None /\ job[w2] # None)
            => job[w1].id.val # job[w2].id.val

\* Two workers are building two different jobs at the same time.
Wit_C7_TwoWorkersTwoJobs ==
    \E w1, w2 \in Workers :
        /\ w1 # w2 /\ pc[w1] = "execute" /\ pc[w2] = "execute"
        /\ job[w1] # None /\ job[w2] # None

\* C8: when Engine.build or Engine.execute raises, the job is afterwards on
\* neither the open nor the completed channel and is not delivered again.
Inv_C8_FailedJobNotRequeued ==
    \A j \in failed :
        /\ \A m \in open \cup completed : m.id # j
        /\ \A w \in Workers : msg[w] = None \/ msg[w].id # j
        /\ delivered[j] = 1

\* A cycle whose execute raised has ended; its job counts as failed.
Wit_C8_FailedCycleEnded ==
    \E w \in Workers :
        Ended(w) /\ raised[w].src = "execute" /\ failed # {}

\* C9: after a cycle in which download, build and execute all succeeded,
\* the job is on the completed channel with the same id.
Cex_C9_SuccessMarkedCompleted ==
    \A j \in succeeded :
        (\A w \in Workers : job[w] = None \/ job[w].id.val # j)
            => \E m \in completed : m.id = j

\* C10 as stated: every error a collaborator raised in a cycle is the error
\* the caller of execute_next_job receives.
Cex_C10_ErrorsReachCaller ==
    \A w \in Workers :
        (Ended(w) /\ raised[w].src \in {"queue", "storage", "build", "execute"})
            => pending[w] = raised[w]

\* C10 amended: an error of get_open_request or Storage.download reaches
\* the caller unchanged; an error of Engine.build or Engine.execute that is
\* an Exception is swallowed (the call returns normally after the archive
\* deletion), and only one that is not an Exception reaches the caller.
Thm_C10_ErrorsReachCallerExceptEngine ==
    \A w \in Workers :
        (Ended(w) /\ raised[w].src \in {"queue", "storage", "build", "execute"})
            => pending[w] =
                 IF raised[w].src \in {"build", "execute"}
                    /\ raised[w].cls = "Exception"
                   THEN NoErr ELSE raised[w]

\* A download error and a swallowed execute error have both been seen.
Wit_C10_StorageAndEngineErrors ==
    \E w1, w2 \in Workers :
        /\ Ended(w1) /\ raised[w1].src = "storage" /\ pending[w1] = raised[w1]
        /\ Ended(w2) /\ raised[w2].src = "execute" /\ pending[w2] = NoErr

\* ------------------------------------------------ worker/types.py claims
\* The last call was `op`.
LastOp(op) == last # None /\ last.op = op

\* The Job the last call created.
Newest == heap[Len(heap)].job

\* The scheme of a URI argument once converted.
SchemeOf(arg) == IF arg.t = "uri" THEN arg.v.scheme ELSE urlparse(arg.v).scheme
Supported(arg) == arg.t # "none" /\ SchemeOf(arg) = S3
Unsupported(arg) == arg.t # "none" /\ SchemeOf(arg) # S3

\* C11: Job.complete is single-use: on an open Job j and a supported URI u
\* it returns a new Job with j's id and bundle_uri and output_uri = u and
\* leaves j open; on a Job whose output_uri is set it fails with
\* AlreadyCompletedError and produces no Job.
Inv_C11_CompleteSingleUse ==
    LastOp("complete") =>
        IF last.self.output_uri # None
          THEN last.err = "AlreadyCompletedError" /\ Len(heap) = last.objs
          ELSE Supported(last.o) =>
                 /\ last.err = "none"
                 /\ Len(heap) = last.objs + 1
                 /\ Newest.id = last.self.id
                 /\ Newest.bundle_uri = last.self.bundle_uri
                 /\ Newest.output_uri = _convert_uri(last.o)
                 /\ Newest.output_uri.scheme = S3
                 /\ heap[last.recv].job = last.self
                 /\ heap[last.recv].job.output_uri = None

\* complete() was called on the result of an earlier complete() and failed.
Wit_C11_SecondCompleteFails ==
    /\ LastOp("complete")
    /\ last.err = "AlreadyCompletedError"
    /\ heap[last.recv].by = "complete"

\* C12 as stated: every Job made by Job.new is open, and a Job with
\* output_uri set comes only from complete().
Cex_C12_NewAlwaysOpen ==
    /\ (LastOp("new") /\ last.err = "none") => Newest.output_uri = None
    /\ \A i \in 1..Len(heap) :
         heap[i].job.output_uri # None => heap[i].by = "complete"

\* C12 amended: a Job made by Job.new is open exactly when no output_uri
\* was passed; with an output_uri passed it carries that URI.  A Job with
\* output_uri set comes from complete() or from a constructor call that was
\* given an output_uri.
Thm_C12_NewOpenUnlessGiven ==
    /\ (LastOp("new") /\ last.err = "none") =>
          /\ (Newest.output_uri = None) <=> (last.o = NoneArg)
          /\ Newest.output_uri = _convert_uri(last.o)
          /\ Newest.id.val \in JobIds
    /\ \A i \in 1..Len(heap) :
         heap[i].job.output_uri # None =>
            (heap[i].by = "complete" \/ heap[i].given)

\* Job.new was called with an output_uri and made a Job that carries it.
Wit_C12_NewWithOutput ==
    /\ LastOp("new") /\ last.err = "none"
    /\ last.o # NoneArg /\ Newest.output_uri # None

\* C13 as stated: a Job whose bundle_uri or output_uri has a scheme other
\* than s3 is rejected, complete(u) with such a u is rejected, and so is an
\* ObjectURI with such a scheme; with s3 the construction succeeds.
Cex_C13_NonS3Rejected ==
    /\ (LastOp("new") \/ LastOp("init")) =>
          (last.err = "ValueError"
             <=> (Unsupported(last.b) \/ Unsupported(last.o)))
    /\ (LastOp("complete") /\ last.self.output_uri = None) =>
          (last.err = "ValueError" <=> Unsupported(last.o))
    /\ (LastOp("ObjectURI") \/ LastOp("parse")) =>
          (last.err = "none" <=> last.out.scheme = S3)

\* C13 amended: the Job constructors and complete() reject a non-s3
\* bundle_uri or output_uri with ValueError and accept s3; ObjectURI itself
\* validates nothing and is constructed for any scheme.
Thm_C13_JobRejectsNonS3 ==
    /\ (LastOp("new") \/ LastOp("init")) =>
          (last.err = "ValueError"
             <=> (Unsupported(last.b) \/ Unsupported(last.o)))
    /\ (LastOp("new") \/ LastOp("init")) => last.err \in {"none", "ValueError"}
    /\ (LastOp("complete") /\ last.self.output_uri = None) =>
          /\ last.err = "ValueError" <=> Unsupported(last.o)
          /\ last.err = "ValueError" => Len(heap) = last.objs
    /\ (LastOp("ObjectURI") \/ LastOp("parse")) => last.err = "none"

\* complete(u) with a non-s3 u was rejected and made no Job.
Wit_C13_CompleteNonS3 ==
    /\ LastOp("complete") /\ last.err = "ValueError"
    /\ Unsupported(last.o) /\ Len(heap) = last.objs

\* C14: parsing u.to_uri_string() gives back u, for every ObjectURI u (an
\* empty authority included), and the ObjectURI parsed from 's3://b/k'
\* prints as 's3://b/k'.
Cex_C14_UriRoundTrip ==
    /\ LastOp("parse_back") => last.out = last.self
    /\ (LastOp("to_uri_string") /\ last.from = StrArg(StrS3BK))
          => last.out = StrS3BK

\* C15 as stated: submit_new_request(j) then get_open_request() on an
\* otherwise empty channel returns a Job equal to j in id, bundle_uri and
\* output_uri (a ULID id compares equal to its string form).
Cex_C15_QueueRoundTrip ==
    (LastOp("get") /\ last.sent # None) =>
        /\ last.err = "none"
        /\ last.out.id.val = last.sent.id.val
        /\ last.out.bundle_uri = last.sent.bundle_uri
        /\ last.out.output_uri = last.sent.output_uri

\* C15 amended: for a Job j whose id is a ULID string the round trip
\* returns an open Job with j's bundle_uri whose id is the ULID parsed from
\* j.id; j's output_uri is not carried over.  For any other id
\* get_open_request raises ValueError.
Thm_C15_QueueRoundTripOpenUlid ==
    (LastOp("get") /\ last.sent # None) =>
        IF IsUlidStr(last.sent.id.val)
          THEN /\ last.err = "none"
               /\ last.out.id = [repr |-> "ulid", val |-> last.sent.id.val]
               /\ last.out.bundle_uri = last.sent.bundle_uri
               /\ last.out.output_uri = None
               /\ open = {}
          ELSE last.err = "ValueError"

\* An open Job made by Job.new went through the queue.
Wit_C15_OpenJobRoundTrip ==
    /\ LastOp("get") /\ last.sent # None /\ last.err = "none"
    /\ last.sent.output_uri = None /\ last.out.bundle_uri.scheme = S3

\* ------------------------------------------------ bundle/config.py claims
\* The call returned or raised.
Called == cfgOut # None
Constructed == Called /\ cfgOut.err = "none"

\* The call was made with a volumes dict and nothing else that can fail.
VolumesCall ==
    /\ Called
    /\ cfgIn.volumes.t = "dict"
    /\ cfgIn.name # Absent /\ cfgIn.cmd = Absent /\ cfgIn.entrypoint = Absent

\* The defects of an entry of the volumes argument.
IsMapping(e) == e.k.t = "str" /\ e.v.t = "dict"
KeyNotStr(e) == e.k.t # "str"
ValueNotStrOrMapping(e) == e.v.t \notin {"str", "dict"}
MissingBind(e) == IsMapping(e) /\ ~Has(e.v, "bind")
MissingMode(e) == IsMapping(e) /\ ~Has(e.v, "mode")
BindNotStr(e) ==
    IsMapping(e) /\ Has(e.v, "bind") /\ Get(e.v, "bind").t # "str"
ModeNotEnum(e) ==
    /\ IsMapping(e) /\ Has(e.v, "mode")
    /\ Get(e.v, "mode") # PyStr("rw") /\ Get(e.v, "mode") # PyStr("ro")
ExtraKey(e) ==
    /\ IsMapping(e)
    /\ \E i \in 1..Len(e.v.v) : e.v.v[i].k \notin {PyStr("bind"), PyStr("mode")}
Invalid(e) ==
    \/ KeyNotStr(e) \/ ValueNotStrOrMapping(e) \/ MissingBind(e)
    \/ MissingMode(e) \/ BindNotStr(e) \/ ModeNotEnum(e) \/ ExtraKey(e)

\* The entries of the volumes argument, and whether entry i is the first
\* invalid one.
Entries == cfgIn.volumes.v
FirstInvalid(i) ==
    Invalid(Entries[i]) /\ \A n \in 1..(i - 1) : ~Invalid(Entries[n])

\* C16 as stated: an invalid entry fails with the error of its kind: a key
\* other than bind and mode with InvalidKeyError, a missing bind or mode
\* with MissingKeyError, a non-string bind with TypeError, a mode outside
\* {rw, ro} with ValueError, a non-string key or a value neither string nor
\* mapping with TypeError; and a rejected input gives no BundleConfig.
Cex_C16_VolumeErrorsByKind ==
    VolumesCall =>
        /\ cfgOut.err # "none" => cfgOut.cfg = None
        /\ \A i \in 1..Len(Entries) :
             FirstInvalid(i) =>
               LET e == Entries[i] IN
               /\ ExtraKey(e) => cfgOut.err = "InvalidKeyError"
               /\ (MissingBind(e) \/ MissingMode(e))
                     => cfgOut.err = "MissingKeyError"
               /\ BindNotStr(e) => cfgOut.err = "TypeError"
               /\ ModeNotEnum(e) => cfgOut.err = "ValueError"
               /\ (KeyNotStr(e) \/ ValueNotStrOrMapping(e))
                     => cfgOut.err = "TypeError"

\* C16 amended: the error is that of the first failing check of the first
\* invalid entry, the checks being made in the order: key type, value type,
\* bind present, bind type, mode present, mode value, other keys.  Without
\* an invalid entry the construction succeeds; a rejected input gives no
\* BundleConfig.
Thm_C16_VolumeErrorsByFirstCheck ==
    VolumesCall =>
        /\ cfgOut.err = "none" <=> \A i \in 1..Len(Entries) : ~Invalid(Entries[i])
        /\ cfgOut.err # "none" => cfgOut.cfg = None
        /\ cfgOut.err = "none" => cfgOut.cfg # None
        /\ \A i \in 1..Len(Entries) :
             FirstInvalid(i) =>
               LET e == Entries[i] IN
               cfgOut.err =
                 IF KeyNotStr(e) \/ ValueNotStrOrMapping(e) THEN "TypeError"
                 ELSE IF MissingBind(e) THEN "MissingKeyError"
                 ELSE IF BindNotStr(e) THEN "TypeError"
                 ELSE IF MissingMode(e) THEN "MissingKeyError"
                 ELSE IF ModeNotEnum(e) THEN "ValueError"
                 ELSE "InvalidKeyError"

\* A mapping with a valid bind and mode and one more key, after a valid
\* entry, was rejected with InvalidKeyError.
Wit_C16_ExtraKeyRejected ==
    /\ VolumesCall
    /\ cfgOut.err = "InvalidKeyError" /\ cfgOut.cfg = None
    /\ Len(Entries) = 2 /\ FirstInvalid(2) /\ ExtraKey(Entries[2])

\* A value cmd and entrypoint may have: None, a string, a list of strings.
StrOrStrList(value) ==
    \/ value.t \in {"none", "str"}
    \/ value.t = "list" /\ \A i \in 1..Len(value.v) : value.v[i].t = "str"

\* The value an argument stands for: a left out one is None.
Given(arg) == IF arg = Absent THEN PyNone ELSE arg

\* C17: in every constructed BundleConfig cmd and entrypoint are each
\* absent, a string or a list of strings; any other value, truthy or not,
\* makes the construction fail with TypeError.
Cex_C17_CmdStrOrStrList ==
    /\ Constructed =>
          StrOrStrList(cfgOut.cfg.cmd) /\ StrOrStrList(cfgOut.cfg.entrypoint)
    /\ (/\ Called
        /\ cfgIn.name # Absent /\ cfgIn.volumes = Absent
        /\ ~StrOrStrList(Given(cfgIn.cmd))
              \/ ~StrOrStrList(Given(cfgIn.entrypoint)))
          => cfgOut.err = "TypeError"

\* C18: construction normalizes the volumes: a bare string s becomes
\* {bind: s, mode: "rw"}, a mapping with mode rw or ro is kept unchanged,
\* and every entry of the result has exactly the keys bind and mode, with
\* mode rw or ro.
Inv_C18_VolumesNormalized ==
    (Constructed /\ cfgIn.volumes # Absent) =>
        LET out == cfgOut.cfg.volumes.v IN
        /\ Len(out) = Len(Entries)
        /\ \A i \in 1..Len(out) :
             /\ out[i].k = Entries[i].k
             /\ Entries[i].v.t = "str" =>
                  /\ Get(out[i].v, "bind") = Entries[i].v
                  /\ Get(out[i].v, "mode") = PyStr("rw")
             /\ Entries[i].v.t = "dict" => out[i].v = Entries[i].v
             /\ out[i].v.t = "dict"
             /\ {out[i].v.v[n].k : n \in 1..Len(out[i].v.v)}
                   = {PyStr("bind"), PyStr("mode")}
             /\ Len(out[i].v.v) = 2
             /\ Get(out[i].v, "mode") \in {PyStr("rw"), PyStr("ro")}

\* A config was built from a bare string and a read-only mapping.
Wit_C18_StringAndMapping ==
    /\ Constructed /\ cfgIn.volumes # Absent
    /\ Len(Entries) = 2
    /\ Entries[1].v.t = "str"
    /\ Entries[2].v.t = "dict" /\ Get(Entries[2].v, "mode") = PyStr("ro")

\* C19: every BundleConfig constructed or parsed has a non-empty string as
\* its name; a text without the name key fails with MissingKeyError, and an
\* empty name is rejected.
Cex_C19_NameNonEmpty ==
    /\ Constructed => cfgOut.cfg.name # ""
    /\ (Called /\ cfgIn.via = "loads" /\ cfgIn.name = Absent)
          => cfgOut.err = "MissingKeyError"
    /\ (Called /\ cfgIn.name = PyStr("")) => cfgOut.err # "none"

\* ----------------------------------------------- bundle/bundler.py claims
\* The path has a .git directory as one of its components (itself included).
UnderGit(path) ==
    \E k \in 1..Len(path) : path[k] = ".git" /\ IsDir(SubSeq(path, 1, k))

Archived == {tarnames[i] : i \in 1..Len(tarnames)}

\* C20: the archive create_bundle makes has no entry with a .git directory
\* as a component of its path, at any depth, and has every other file and
\* directory of the tree.
Inv_C20_NoGitDirectoryArchived ==
    bundling = "done" =>
        /\ \A e \in Archived : ~UnderGit(e.name)
        /\ \A n \in tree : ~UnderGit(n.path) => TarInfo(n.path) \in Archived
        /\ \A e \in Archived : Exists(e.name) /\ e = TarInfo(e.name)
        /\ Cardinality(Archived) = Len(tarnames)

\* A tree with a .git directory inside src, and a file in it, was bundled.
Wit_C20_NestedGitSkipped ==
    /\ bundling = "done"
    /\ IsDir(<<"src", ".git">>)
    /\ Exists(<<"src", ".git", "src">>)
    /\ TarInfo(<<"src">>) \in Archived

\* ------------------------------------------------ worker cycle order claim
\* The sequences of collaborator calls a cycle can have made.
CycleTraces ==
    {<<>>,
     <<"get_open_request">>,
     <<"get_open_request", "download">>,
     <<"get_open_request", "download", "build">>,
     <<"get_open_request", "download", "build", "unlink">>,
     <<"get_open_request", "download", "build", "execute">>,
     <<"get_open_request", "download", "build", "execute", "unlink">>}

Called_(w, call) == \E i \in 1..Len(trace[w]) : trace[w][i] = call

\* C25: in every cycle of a Worker the calls come in the order
\* get_open_request, download, build, execute, archive deletion; execute is
\* called only after a build of the job's downloaded bundle that returned,
\* never after a failed build; and a cycle takes no step while the archive
\* of the previous cycle is still there.
Inv_C25_CallOrderInCycle ==
    \A w \in Workers :
        /\ trace[w] \in CycleTraces
        /\ Called_(w, "execute") => raised[w].src \in {"none", "execute"}
        /\ pc[w] = "execute" =>
              /\ raised[w] = NoErr
              /\ job[w] # None
              /\ archive[w] # "none"
              /\ built[job[w].id.val] >= 1
        /\ pc[w] \in {"enter", "receive", "delete", "download"} =>
              archive[w] = "none"

\* A worker, alone at work, is about to call execute in its second cycle;
\* build or execute of its first cycle had failed.
Wit_C25_SecondCycleAfterFailedBuild ==
    \E w, v \in Workers :
        /\ v # w /\ pc[v] = "idle" /\ trace[v] = <<>>
        /\ pc[w] = "execute"
        /\ failed # {} /\ job[w].id.val \notin failed
        /\ trace[w] = <<"get_open_request", "download", "build">>

\* ------------------------------------------------- storage/s3.py claims
StoreOp(op) == sres # None /\ sres.op = op

\* The archive files create_bundle left in the temporary directory.
Bundles == {f \in disk : f.path.dir = TempDir}

\* C21 as stated: the filename of every archive create_bundle produces is
\* the hex SHA-256 digest of its bytes plus the extension, and so is the
\* filename of every copy obtained by upload followed by download.
Cex_C21_ContentAddressedCopies ==
    /\ \A f \in Bundles : f.path.name = GoatName(f.bytes)
    /\ (StoreOp("download") /\ sres.err = "none") =>
          LET copy == sres.out.tarfile IN
          /\ HasFile(copy)
          /\ copy.name = GoatName(ReadFile(copy))

\* C21 amended: the filename of every archive create_bundle produces is the
\* hex SHA-256 digest of its bytes plus the extension; a copy obtained by
\* upload followed by download has the uploaded bytes, so its digest plus
\* the extension is the identifier it was fetched under, while its filename
\* is the destination given to download.
Thm_C21_ContentAddressedIdentifier ==
    /\ \A f \in Bundles : f.path.name = GoatName(f.bytes)
    /\ \A o \in bucket : o.key = GoatName(o.body)
    /\ (StoreOp("download") /\ sres.err = "none") =>
          LET copy == sres.out.tarfile IN
          /\ copy = sres.destination
          /\ HasFile(copy)
          /\ ReadFile(copy) = sres.had
          /\ GoatName(ReadFile(copy)) = sres.identifier

\* An uploaded archive was downloaded to a file of another name.
Wit_C21_CopyUnderOtherName ==
    /\ StoreOp("download") /\ sres.err = "none"
    /\ sres.destination = FilePath("scratch", <<"x">>)
    /\ ReadFile(sres.destination) = Tar(2)

\* C23: download with a directory as destination saves the bundle in it
\* under <sha256 digest>.goat and returns a BundleInfo with that path; with
\* another destination the archive is saved at exactly that path; the
\* Worker passes its scratch directory, so the path it gets lies in it.
Cex_C23_DownloadIntoDirectory ==
    /\ (StoreOp("download") /\ sres.had # None) =>
          LET at == IF is_dir(sres.destination)
                      THEN FilePath(sres.destination.dir,
                                    GoatName(sres.had))
                      ELSE sres.destination
          IN  /\ sres.err = "none"
              /\ sres.out.tarfile = at
              /\ HasFile(at) /\ ReadFile(at) = sres.had
    /\ StoreOp("worker") =>
          /\ sres.destination = ScratchDir
          /\ sres.err = "none" =>
                (sres.out.tarfile.dir = "scratch" /\ ~is_dir(sres.out.tarfile))

\* C24: upload stores the archive under the key equal to its filename and
\* returns that key; however often a bundle is uploaded the bucket is as
\* after one upload, with one object under the key; and download of the key
\* yields a BundleInfo with the bundle's config.
Cex_C24_UploadIdempotent ==
    /\ bucket = {[key |-> create_bundle(i).info.tarfile.name, body |-> Tar(i)] :
                   i \in {n \in Sources : puts[n] > 0}}
    /\ StoreOp("upload") =>
          /\ sres.out = sres.bundle.tarfile.name
          /\ Cardinality({o \in bucket : o.key = sres.out}) = 1
    /\ \A i \in Sources :
          (/\ StoreOp("download")
           /\ puts[i] > 0
           /\ sres.identifier = create_bundle(i).info.tarfile.name)
             => /\ sres.err = "none"
                /\ sres.out.config = create_bundle(i).info.config

\* C26: for a bundle uploaded under the StorageID k and a job with the
\* bundle_uri 's3://<bucket>/<k>', the identifier the Worker passes to
\* Storage.download is k, and the download finds the uploaded object.
Cex_C26_WorkerIdentifierIsKey ==
    StoreOp("worker") =>
        /\ sres.identifier = sres.key
        /\ sres.err # "ClientError"

\* ------------------------------------------------------------ engine claim

\* The key names a file or directory of the bundle's extracted file tree.
InExtractedTree(k, extracted) ==
    /\ k # <<>> /\ k[1] # "/"
    /\ SplitSlash(k) \in extracted

\* The key is a single bare name: no directory separator in it.
BareName(k) == k # <<>> /\ \A i \in 1..Len(k) : k[i] # "/"

\* The one way the key is to be resolved.
Resolution(k, extracted) ==
    IF InExtractedTree(k, extracted) THEN "bind"
    ELSE IF BareName(k) THEN "volume"
    ELSE "missing"

\* C22: execute resolves each declared volume key in exactly one way: a key
\* that exists in the bundle's extracted file tree is bind-mounted from the
\* extracted path with the configured bind and mode; otherwise a single bare
\* name gets an engine-managed volume of that name, created and mounted;
\* otherwise execute fails with MissingVolumeFile.  The artifact is run only
\* after every volume has been resolved and never when one is unresolvable.
Cex_C22_VolumeResolvedOneWay ==
    engineOut # None =>
        /\ \A i \in 1..Len(engineOut.how) :
              LET v == engineIn.volumes[i]
              IN  /\ engineOut.how[i] = Resolution(v.key, engineOut.extracted)
                  /\ engineOut.how[i] = "bind" =>
                        [k |-> [at |-> "tempdir", comps |-> SplitSlash(v.key)],
                         v |-> v.spec] \in engineOut.volumes_absolute_paths
                  /\ engineOut.how[i] = "volume" =>
                        /\ v.key \in engineOut.created
                        /\ [k |-> [at |-> "volume", comps |-> <<v.key>>], v |-> v.spec]
                              \in engineOut.volumes_absolute_paths
                  /\ engineOut.how[i] = "missing" =>
                        engineOut.raised = "MissingVolumeFile"
        /\ engineOut.raised # "none" => engineOut.ran = "no"
        /\ engineOut.ran # "no" =>
              /\ Len(engineOut.how) = Len(engineIn.volumes)
              /\ \A i \in 1..Len(engineIn.volumes) :
                    Resolution(engineIn.volumes[i].key, engineOut.extracted)
                        # "missing"

====
